---- MODULE Spec2Model ----
(***************************************************************************)
(* The swap and token-approval workflow of SonicConnection                 *)
(* (src/src/connections/sonic_connection.py) as a state machine: one       *)
(* account, the chain's allowance / balance / nonce state, the aggregator, *)
(* and the position of the single synchronous caller inside swap() and     *)
(* _handle_token_approval().                                               *)
(***************************************************************************)
EXTENDS Integers, Sequences, FiniteSets, TLC

(***************************************************************************)
(* Arbitrary-size naturals.  The raw token amounts are of the order of     *)
(* 10^18 and Python's float products need about 113 bits, so naturals are  *)
(* little-endian digit sequences in base 10^5, without leading zero        *)
(* digits: << >> is 0.                                                     *)
(***************************************************************************)
Base == 10^5

RECURSIVE BigNorm(_)
BigNorm(a) ==
    IF a = << >> THEN << >>
    ELSE IF a[Len(a)] = 0 THEN BigNorm(SubSeq(a, 1, Len(a) - 1))
    ELSE a

RECURSIVE BigOfNat(_)
BigOfNat(n) == IF n = 0 THEN << >> ELSE <<n % Base>> \o BigOfNat(n \div Base)

RECURSIVE MulCarry(_, _, _)
MulCarry(a, k, c) ==
    IF a = << >> THEN BigOfNat(c)
    ELSE LET t == Head(a) * k + c
         IN  <<t % Base>> \o MulCarry(Tail(a), k, t \div Base)

\* a * k for a small factor 0 <= k <= Base
BigMulSmall(a, k) == BigNorm(MulCarry(a, k, 0))

\* a + c for a small addend 0 <= c <= Base
BigAddSmall(a, c) == BigNorm(MulCarry(a, 1, c))

\* a divided by a small divisor 0 < k <= Base: quotient and remainder
RECURSIVE DivRem(_, _)
DivRem(a, k) ==
    IF a = << >> THEN [q |-> << >>, r |-> 0]
    ELSE LET hi == DivRem(Tail(a), k)
             t  == hi.r * Base + Head(a)
         IN  [r |-> t % k, q |-> <<t \div k>> \o hi.q]

BigDivSmall(a, k) == BigNorm(DivRem(a, k).q)

BigModSmall(a, k) == DivRem(a, k).r

RECURSIVE BigLess(_, _)
BigLess(a, b) ==
    IF Len(a) # Len(b) THEN Len(a) < Len(b)
    ELSE IF a = << >> THEN FALSE
    ELSE IF a[Len(a)] # b[Len(b)] THEN a[Len(a)] < b[Len(b)]
    ELSE BigLess(SubSeq(a, 1, Len(a) - 1), SubSeq(b, 1, Len(b) - 1))

BigLeq(a, b) == ~BigLess(b, a)

\* a - b for a >= b
RECURSIVE SubBorrow(_, _, _)
SubBorrow(a, b, c) ==
    IF a = << >> THEN << >>
    ELSE LET bd == IF b = << >> THEN 0 ELSE Head(b)
             t  == Head(a) - bd - c
         IN  <<(t + Base) % Base>>
               \o SubBorrow(Tail(a), IF b = << >> THEN << >> ELSE Tail(b),
                            IF t < 0 THEN 1 ELSE 0)

BigSub(a, b) == BigNorm(SubBorrow(a, b, 0))

\* the largest of the steps 13, 4, 1 that fits in n > 0
Pow2Step(n) == IF n >= 13 THEN 13 ELSE IF n >= 4 THEN 4 ELSE 1

RECURSIVE BigTimesPow2(_, _)
BigTimesPow2(a, n) ==
    IF n = 0 \/ a = << >> THEN a
    ELSE BigTimesPow2(BigMulSmall(a, 2^Pow2Step(n)), n - Pow2Step(n))

\* the larger of the steps 4, 1 that fits in n > 0
Pow10Step(n) == IF n >= 4 THEN 4 ELSE 1

RECURSIVE BigTimesPow10(_, _)
BigTimesPow10(a, n) ==
    IF n = 0 \/ a = << >> THEN a
    ELSE BigTimesPow10(BigMulSmall(a, 10^Pow10Step(n)), n - Pow10Step(n))

\* floor(a / 2^n), and whether the division was inexact
RECURSIVE DivPow2(_, _, _)
DivPow2(a, n, sticky) ==
    IF n = 0 \/ a = << >> THEN [q |-> a, sticky |-> sticky]
    ELSE IF sticky THEN DivPow2(BigDivSmall(a, 2^Pow2Step(n)), n - Pow2Step(n), TRUE)
    ELSE DivPow2(BigDivSmall(a, 2^Pow2Step(n)), n - Pow2Step(n),
                 BigModSmall(a, 2^Pow2Step(n)) # 0)

\* floor(a / 10^n), and whether the division was inexact
RECURSIVE DivPow10(_, _, _)
DivPow10(a, n, sticky) ==
    IF n = 0 \/ a = << >> THEN [q |-> a, sticky |-> sticky]
    ELSE IF sticky THEN DivPow10(BigDivSmall(a, 10^Pow10Step(n)), n - Pow10Step(n), TRUE)
    ELSE DivPow10(BigDivSmall(a, 10^Pow10Step(n)), n - Pow10Step(n),
                  BigModSmall(a, 10^Pow10Step(n)) # 0)

(***************************************************************************)
(* Python floats: IEEE-754 binary64, a value m * 2^e with 2^52 <= m < 2^53 *)
(* (0.0 is m = 0), every operation rounded to nearest, ties to even.       *)
(***************************************************************************)
MantBits == 53

FloatZero == [m |-> << >>, e |-> 0]

\* least k >= 0 with n * 2^k >= lo
RECURSIVE ShiftUp(_, _, _)
ShiftUp(n, lo, k) ==
    IF BigLess(BigMulSmall(n, 2^13), lo) THEN ShiftUp(BigMulSmall(n, 2^13), lo, k + 13)
    ELSE IF BigLess(BigMulSmall(n, 2^4), lo) THEN ShiftUp(BigMulSmall(n, 2^4), lo, k + 4)
    ELSE IF BigLess(n, lo) THEN ShiftUp(BigMulSmall(n, 2), lo, k + 1)
    ELSE k

\* least j >= 0 with n < hi * 2^j
RECURSIVE ShiftDown(_, _, _)
ShiftDown(n, hi, j) ==
    IF BigLeq(BigMulSmall(hi, 2^13), n) THEN ShiftDown(n, BigMulSmall(hi, 2^13), j + 13)
    ELSE IF BigLeq(BigMulSmall(hi, 2^4), n) THEN ShiftDown(n, BigMulSmall(hi, 2^4), j + 4)
    ELSE IF BigLeq(hi, n) THEN ShiftDown(n, BigMulSmall(hi, 2), j + 1)
    ELSE j

\* The binary64 nearest to n / 10^p, for naturals n, p.
RoundToFloat(n, p) ==
    IF n = << >> THEN FloatZero
    ELSE LET den == BigTimesPow10(<<1>>, p)
             k   == ShiftUp(n, BigTimesPow2(den, MantBits), 0)
             j   == ShiftDown(n, BigTimesPow2(den, MantBits + 1), 0)
             \* q has MantBits + 1 bits: the mantissa and the rounding bit
             d10 == DivPow10(BigTimesPow2(n, k), p, FALSE)
             d2  == DivPow2(d10.q, j, d10.sticky)
             m0  == BigDivSmall(d2.q, 2)
             half == BigModSmall(d2.q, 2) = 1
             up  == half /\ (d2.sticky \/ BigModSmall(m0, 2) = 1)
             m   == IF up THEN BigAddSmall(m0, 1) ELSE m0
             e   == j - k + 1
         IN  IF m = BigTimesPow2(<<1>>, MantBits)
             THEN [m |-> BigTimesPow2(<<1>>, MantBits - 1), e |-> e + 1]
             ELSE [m |-> m, e |-> e]

\* x < y on floats (both are >= 0 in this model)
FloatLess(x, y) ==
    IF y.m = << >> THEN FALSE
    ELSE IF x.m = << >> THEN TRUE
    ELSE IF x.e # y.e THEN x.e < y.e
    ELSE BigLess(x.m, y.m)

\* float * float(10 ** d): the exact product f.m * 10^d * 2^f.e, rounded
FloatTimesPow10(f, d) ==
    LET r == RoundToFloat(BigTimesPow10(f.m, d), 0)
    IN  IF f.m = << >> THEN FloatZero ELSE [m |-> r.m, e |-> r.e + f.e]

\* int(f): truncation towards zero
IntOfFloat(f) ==
    IF f.e >= 0 THEN BigTimesPow2(f.m, f.e) ELSE DivPow2(f.m, -f.e, FALSE).q

(***************************************************************************)
(* Addresses.  An address string is its 20-byte value and the letter case  *)
(* it is written in; str.lower() changes only the case.                    *)
(***************************************************************************)
Lower(s) == [s EXCEPT !.form = "lower"]

NATIVE_TOKEN == [addr |-> "0xEeeeeEeeeEeEeeEeEeEeeEEEeeeeEeeeeeeeEEeE", form |-> "mixed"]

S_TOKEN == [addr |-> "0x039e2fB66102314Ce7b64Ce5Ce3E5183bc94aD38", form |-> "lower"]

OTHER_TOKEN == [addr |-> "0x29219dd400f2Bf60E5a23d13Be72B486D4038894", form |-> "mixed"]

ROUTER == "0x6131B5fae19EA4f9D964eAc0408E4408b66337b5"

NativeAddr == NATIVE_TOKEN.addr

Erc20Addrs == {S_TOKEN.addr, OTHER_TOKEN.addr}

\* token_contract.functions.decimals().call(): wrapped S has 18, the other token 6
Decimals(addr) == IF addr = S_TOKEN.addr THEN 18 ELSE 6

EtherDecimals == 18

(***************************************************************************)
(* Inputs.  An amount is the decimal literal <<n, p>> = n / 10^p the       *)
(* caller's float was parsed from (and that str() prints back).            *)
(***************************************************************************)
AmountInputs == {<<11, 1>>, <<5, 0>>}

TokenInputs ==
    {NATIVE_TOKEN, Lower(NATIVE_TOKEN), [S_TOKEN EXCEPT !.form = "mixed"], OTHER_TOKEN}

\* the slippage argument: << >> when the caller leaves it out
SlippageInputs == {<< >>, <<1, 0>>}

DEFAULT_SLIPPAGE == <<5, 1>>

DecimalsOf(addr) == IF addr = NativeAddr THEN EtherDecimals ELSE Decimals(addr)

\* What the account holds before the first call: 3.0 units of each token,
\* or ten raw units less than 1.1 units of each 18-decimals token.
InitialBalances ==
    { [t \in Erc20Addrs \cup {NativeAddr} |-> BigTimesPow10(<<3>>, DecimalsOf(t))],
      [t \in Erc20Addrs \cup {NativeAddr} |->
          IF DecimalsOf(t) = EtherDecimals
          THEN BigSub(BigTimesPow10(<<11>>, EtherDecimals - 1), <<10>>)
          ELSE BigTimesPow10(<<3>>, DecimalsOf(t))] }

\* the router's allowance before the first call, the same for each token
InitialAllowances == {<< >>, BigTimesPow10(<<11>>, EtherDecimals - 1)}

MaxCalls == 2

AmountFloat(a) == RoundToFloat(BigOfNat(a[1]), a[2])

\* web3.to_wei(amount, 'ether'): Decimal(str(amount)) * 10^18, truncated
ToWeiEther(a) ==
    IF a[2] <= EtherDecimals
    THEN BigTimesPow10(BigOfNat(a[1]), EtherDecimals - a[2])
    ELSE DivPow10(BigOfNat(a[1]), a[2] - EtherDecimals, FALSE).q

\* int(amount * (10 ** decimals))
FloatToRaw(a, decimals) == IntOfFloat(FloatTimesPow10(AmountFloat(a), decimals))

\* token_in.lower() == self.NATIVE_TOKEN.lower()
IsNativeToken(token_in) == Lower(token_in) = Lower(NATIVE_TOKEN)

\* swap: the token_address it passes to get_balance, << >> for None
BalanceTokenAddress(token_in) ==
    IF Lower(token_in) = Lower(NATIVE_TOKEN) THEN << >> ELSE <<token_in.addr>>

\* mutant: the comparison without lower()
NeedsTokenApproval_CaseSensitive(token_in) == token_in # NATIVE_TOKEN

\* swap: whether the approval step runs
NeedsTokenApproval(token_in) == Lower(token_in) # Lower(NATIVE_TOKEN)

IsSToken(token_in) == Lower(token_in) = Lower(S_TOKEN)

\* _get_swap_route: the amountIn of the quote
RouteAmountRaw(token_in, amount) ==
    IF IsNativeToken(token_in) THEN ToWeiEther(amount)
    ELSE FloatToRaw(amount, Decimals(token_in.addr))

\* swap: the amount handed to _handle_token_approval
ApprovalAmountRaw(token_in, amount) ==
    IF IsSToken(token_in) THEN ToWeiEther(amount)
    ELSE FloatToRaw(amount, Decimals(token_in.addr))

\* swap: the 'value' of the swap transaction
SwapValue(token_in, amount) ==
    IF IsNativeToken(token_in) THEN ToWeiEther(amount) ELSE << >>

\* get_balance: the balance in token units, as a float
GetBalance(bal, token_address) ==
    IF token_address = << >> THEN RoundToFloat(bal[NativeAddr], EtherDecimals)
    ELSE RoundToFloat(bal[token_address[1]], Decimals(token_address[1]))

InsufficientBalance(current_balance, amount) ==
    FloatLess(current_balance, AmountFloat(amount))

\* swap: the slippage parameter, with its default
SlippageParam(arg) == IF arg = << >> THEN DEFAULT_SLIPPAGE ELSE arg

\* mutant: the slippage is sent as it is, without the factor 100
SlippageTolerance_Unscaled(slippage) == FloatToRaw(slippage, 0)

\* _get_encoded_swap_data: int(slippage * 100)
SlippageTolerance(slippage) == FloatToRaw(slippage, 2)

(***************************************************************************)
(* The aggregator's answers.                                               *)
(***************************************************************************)
RouteResponses ==
    { [http |-> "error", code |-> 0, dataIsDict |-> FALSE, routeSummary |-> FALSE,
       routerAddress |-> ""],
      [http |-> "ok", code |-> 4, dataIsDict |-> TRUE, routeSummary |-> TRUE,
       routerAddress |-> ROUTER],
      [http |-> "ok", code |-> 0, dataIsDict |-> FALSE, routeSummary |-> FALSE,
       routerAddress |-> ""],
      [http |-> "ok", code |-> 0, dataIsDict |-> TRUE, routeSummary |-> FALSE,
       routerAddress |-> ROUTER],
      [http |-> "ok", code |-> 0, dataIsDict |-> TRUE, routeSummary |-> TRUE,
       routerAddress |-> ""],
      [http |-> "ok", code |-> 0, dataIsDict |-> TRUE, routeSummary |-> TRUE,
       routerAddress |-> ROUTER] }

\* mutant: the response's code is not looked at
RouteFailed_IgnoresCode(resp) == resp.http # "ok" \/ ~resp.dataIsDict

RouteFailed(resp) == resp.http # "ok" \/ resp.code # 0 \/ ~resp.dataIsDict

BuildResponses ==
    { [http |-> "error", code |-> 0, dataIsStr |-> FALSE],
      [http |-> "ok", code |-> 4, dataIsStr |-> TRUE],
      [http |-> "ok", code |-> 0, dataIsStr |-> FALSE],
      [http |-> "ok", code |-> 0, dataIsStr |-> TRUE] }

\* mutant: only the transport's status is looked at
BuildFailed_HttpOnly(resp) == resp.http # "ok"

BuildFailed(resp) == resp.http # "ok" \/ resp.code # 0 \/ ~resp.dataIsStr

(***************************************************************************)
(* The chain's answers.                                                    *)
(***************************************************************************)
RpcOutcomes == {"ok", "error"}

\* wait_for_transaction_receipt: a receipt with status 1 or 0, a falsy
\* receipt, or TimeExhausted
ReceiptOutcomes == {"status1", "status0", "none", "timeout"}

DEFAULT_GAS_LIMIT == 500000

\* web3.eth.estimate_gas: an estimate, or an exception
GasEstimates == { [ok |-> FALSE, gas |-> 0], [ok |-> TRUE, gas |-> 180000] }

\* mutant: no fallback, the failed estimate's empty value is used
GasLimit_NoFallback(est) == est.gas

\* swap: base_tx['gas'] after the try / except around estimate_gas
GasLimit(est) == IF est.ok THEN est.gas ELSE DEFAULT_GAS_LIMIT

\* mutant: an allowance equal to the amount is approved again
NeedsApproval_Leq(current_allowance, amount) == BigLeq(current_allowance, amount)

NeedsApproval(current_allowance, amount) == BigLess(current_allowance, amount)

\* mutant: an unlimited approval instead of the exact amount
ApproveAmount_Unlimited(amount) == BigTimesPow10(<<1>>, 77)

ApproveAmount(amount) == amount

\* mutant: the approval's receipt is not looked at
ApprovalReceiptFailed_Never(outcome) == FALSE

ApprovalReceiptFailed(outcome) == outcome = "none" \/ outcome # "status1"

\* mutant: only an explicit failure status is an error
SwapReceiptFailed_OnlyStatus0(outcome) == outcome = "status0"

SwapReceiptFailed(outcome) == outcome = "none" \/ outcome # "status1"

VARIABLES
    allowance,   \* chain: token address -> the router's allowance from the account
    balance,     \* chain: token address (or native) -> the account's balance
    nonce,       \* chain: the account's transaction count
    mempool,     \* chain: the account's broadcast, not yet mined transaction
    pc,          \* where the caller is
    call,        \* the running (or last) call and its arguments
    loc,         \* its local variables
    io,          \* the requests and transactions it has sent, and the answers
    result,      \* how the last call ended
    prev,        \* the call before it
    calls        \* calls started so far

vars == <<allowance, balance, nonce, mempool, pc, call, loc, io, result, prev, calls>>

chain == <<allowance, balance, nonce, mempool>>

NoCall == [fn |-> "none", token_in |-> NATIVE_TOKEN, amount |-> <<0, 0>>,
           slippage |-> << >>, spender |-> "", required |-> << >>]

NoTx == [kind |-> "none", token |-> "", spender |-> "", amount |-> << >>,
         value |-> << >>, nonce |-> 0, gas |-> 0]

NoEstimate == [ok |-> FALSE, gas |-> 0]

NoLoc == [current_balance |-> FloatZero, quoted |-> << >>, router_address |-> "",
          routeSummary |-> FALSE, amount |-> << >>, tx |-> NoTx]

NoIo == [routes |-> << >>, builds |-> << >>, allowanceReads |-> << >>,
         approveTxs |-> << >>, estimates |-> << >>, swapTxs |-> << >>,
         receipts |-> << >>]

NoResult == [status |-> "none", value |-> "", minedAfter |-> FALSE]

NoPrev == [fn |-> "none", token |-> NativeAddr, amount |-> <<0, 0>>,
           spender |-> "", required |-> << >>, status |-> "none",
           minedAfter |-> FALSE, approveTxs |-> 0, swapTxs |-> 0,
           approved |-> FALSE]

Init ==
    /\ \E a \in InitialAllowances : allowance = [t \in Erc20Addrs |-> a]
    /\ balance \in InitialBalances
    /\ nonce = 0
    /\ mempool = << >>
    /\ pc = "idle"
    /\ call = NoCall
    /\ loc = NoLoc
    /\ io = NoIo
    /\ result = NoResult
    /\ prev = NoPrev
    /\ calls = 0

\* mutant: a failing step is tried again instead of ending the call
Raise_Retry(error) ==
    /\ pc' = pc
    /\ loc' = loc
    /\ result' = NoResult

\* an exception leaves the call: every except clause logs and re-raises
Raise(error) ==
    /\ pc' = "idle"
    /\ loc' = NoLoc
    /\ result' = [status |-> "raised", value |-> error, minedAfter |-> FALSE]

Return(value) ==
    /\ pc' = "idle"
    /\ loc' = NoLoc
    /\ result' = [status |-> "returned", value |-> value, minedAfter |-> FALSE]

Continue(next, locals) ==
    /\ pc' = next
    /\ loc' = locals
    /\ result' = NoResult

BeginCall(c) ==
    /\ pc = "idle"
    /\ calls < MaxCalls
    /\ calls' = calls + 1
    /\ call' = c
    /\ prev' = [fn |-> call.fn, token |-> call.token_in.addr, amount |-> call.amount,
                spender |-> call.spender, required |-> call.required,
                status |-> result.status, minedAfter |-> result.minedAfter,
                approveTxs |-> Len(io.approveTxs), swapTxs |-> Len(io.swapTxs),
                approved |-> \E i \in 1..Len(io.receipts) :
                                io.receipts[i] = [kind |-> "approve",
                                                  outcome |-> "status1"]]
    /\ io' = NoIo

(***************************************************************************)
(* The chain's execution of a mined transaction.                           *)
(***************************************************************************)
\* mutant: an executed approve() leaves the allowance as it was
ApproveEffect_NotKept(tx) == allowance

\* an approve() that executes sets the allowance to its amount
ApproveEffect(tx) == [allowance EXCEPT ![tx.token] = tx.amount]

\* the router can pull the input only within the balance and the allowance
SwapCanSucceed(tx) ==
    IF tx.token = NativeAddr THEN BigLeq(tx.value, balance[NativeAddr])
    ELSE /\ BigLeq(tx.amount, balance[tx.token])
         /\ BigLeq(tx.amount, allowance[tx.token])

CanSucceed(tx) == IF tx.kind = "approve" THEN TRUE ELSE SwapCanSucceed(tx)

\* the chain state after tx is mined with the given status
Mined(tx, status) ==
    /\ nonce' = nonce + 1
    /\ mempool' = << >>
    /\ IF status = "status1" /\ tx.kind = "approve"
       THEN allowance' = ApproveEffect(tx) /\ balance' = balance
       ELSE IF status = "status1" /\ tx.token = NativeAddr
       THEN /\ balance' = [balance EXCEPT ![NativeAddr] = BigSub(@, tx.value)]
            /\ allowance' = allowance
       ELSE IF status = "status1"
       THEN /\ balance' = [balance EXCEPT ![tx.token] = BigSub(@, tx.amount)]
            /\ allowance' = [allowance EXCEPT ![tx.token] = BigSub(@, tx.amount)]
       ELSE allowance' = allowance /\ balance' = balance

\* mutant: a wait without a timeout for a transaction that is never mined
Observable_NeverEnds(tx) == {}

\* what a wait for tx can observe: it is mined, executed or reverted, or not yet
Observable(tx) ==
    {o \in ReceiptOutcomes : o = "status1" => CanSucceed(tx)}

\* the chain after the wait for tx observed outcome o
AfterWait(tx, o) ==
    IF o \in {"status1", "status0"} THEN Mined(tx, o) ELSE UNCHANGED chain

(***************************************************************************)
(* swap(token_in, token_out, amount, slippage)                             *)
(***************************************************************************)
SwapCall(token_in, amount, slippage, configured) ==
    /\ BeginCall([fn |-> "swap", token_in |-> token_in, amount |-> amount,
                  slippage |-> slippage, spender |-> "", required |-> << >>])
    /\ IF configured
       THEN Continue("swap_balance", NoLoc)
       ELSE Raise("SonicConnectionError")
    /\ UNCHANGED chain

SwapCheckBalance(rpc) ==
    /\ pc = "swap_balance"
    /\ LET current_balance == GetBalance(balance, BalanceTokenAddress(call.token_in))
       IN  IF rpc # "ok" THEN Raise("RpcError")
           ELSE IF InsufficientBalance(current_balance, call.amount)
           THEN Raise("ValueError")
           ELSE Continue("swap_route", [loc EXCEPT !.current_balance = current_balance])
    /\ UNCHANGED <<chain, call, io, prev, calls>>

GetSwapRoute(resp) ==
    /\ pc = "swap_route"
    /\ LET amount_raw == RouteAmountRaw(call.token_in, call.amount)
       IN  /\ io' = [io EXCEPT !.routes =
                          Append(@, [amountIn |-> amount_raw, resp |-> resp])]
           /\ IF RouteFailed(resp)
              THEN Raise("RouteError")
              ELSE Continue("swap_encode",
                            [loc EXCEPT !.quoted = amount_raw,
                                        !.routeSummary = resp.routeSummary,
                                        !.router_address = resp.routerAddress])
    /\ UNCHANGED <<chain, call, prev, calls>>

GetEncodedSwapData(resp) ==
    /\ pc = "swap_encode"
    /\ IF ~loc.routeSummary
       THEN Raise("KeyError") /\ io' = io
       ELSE /\ io' = [io EXCEPT !.builds =
                          Append(@, [slippageTolerance |->
                                        SlippageTolerance(SlippageParam(call.slippage)),
                                     resp |-> resp])]
            /\ IF BuildFailed(resp)
               THEN Raise("EncodeError")
               ELSE Continue("swap_approval", loc)
    /\ UNCHANGED <<chain, call, prev, calls>>

SwapPrepareApproval ==
    /\ pc = "swap_approval"
    /\ IF loc.router_address = ""
       THEN Raise("SonicConnectionError")
       ELSE IF NeedsTokenApproval(call.token_in)
       THEN Continue("approval_allowance",
                     [loc EXCEPT !.amount =
                          ApprovalAmountRaw(call.token_in, call.amount)])
       ELSE Continue("swap_build", loc)
    /\ UNCHANGED <<chain, call, io, prev, calls>>

(***************************************************************************)
(* _handle_token_approval(token_address, spender_address, amount)          *)
(***************************************************************************)
ApprovalCall(token, spender, amount, configured) ==
    /\ BeginCall([fn |-> "approval", token_in |-> token, amount |-> <<0, 0>>,
                  slippage |-> << >>, spender |-> spender, required |-> amount])
    /\ IF configured
       THEN Continue("approval_allowance", NoLoc)
       ELSE Raise("SonicConnectionError")
    /\ UNCHANGED chain

\* the parameters of the running _handle_token_approval
ApprovalToken == call.token_in.addr

ApprovalSpender == IF call.fn = "swap" THEN loc.router_address ELSE call.spender

ApprovalRequired == IF call.fn = "swap" THEN loc.amount ELSE call.required

\* its normal return: back into swap, or to the direct caller
ApprovalReturn ==
    IF call.fn = "swap" THEN Continue("swap_build", loc) ELSE Return("None")

ApprovalCheckAllowance(rpc) ==
    /\ pc = "approval_allowance"
    /\ LET current_allowance == allowance[ApprovalToken]
       IN  IF rpc # "ok" \/ ApprovalToken \notin Erc20Addrs
           THEN Raise("RpcError") /\ io' = io
           ELSE /\ io' = [io EXCEPT !.allowanceReads = Append(@, current_allowance)]
                /\ IF NeedsApproval(current_allowance, ApprovalRequired)
                   THEN Continue("approval_send", loc)
                   ELSE ApprovalReturn
    /\ UNCHANGED <<chain, call, prev, calls>>

ApprovalSend(rpc) ==
    /\ pc = "approval_send"
    /\ LET approve_tx == [kind |-> "approve", token |-> ApprovalToken,
                          spender |-> ApprovalSpender,
                          amount |-> ApproveAmount(ApprovalRequired),
                          value |-> << >>, nonce |-> nonce, gas |-> 0]
       IN  IF rpc # "ok"
           THEN Raise("RpcError") /\ UNCHANGED <<io, mempool>>
           ELSE /\ io' = [io EXCEPT !.approveTxs = Append(@, approve_tx)]
                /\ mempool' = <<approve_tx>>
                /\ Continue("approval_wait", [loc EXCEPT !.tx = approve_tx])
    /\ UNCHANGED <<allowance, balance, nonce, call, prev, calls>>

\* mutant: the approval returns once it is sent, without awaiting the receipt
ApprovalWait_NotAwaited(outcome) ==
    /\ pc = "approval_wait"
    /\ ApprovalReturn
    /\ UNCHANGED <<chain, call, io, prev, calls>>

\* wait_for_transaction_receipt(tx_hash) for the approval, and the status test
ApprovalWait(outcome) ==
    /\ pc = "approval_wait"
    /\ outcome \in Observable(loc.tx)
    /\ AfterWait(loc.tx, outcome)
    /\ io' = [io EXCEPT !.receipts = Append(@, [kind |-> "approve", outcome |-> outcome])]
    /\ IF outcome = "timeout" THEN Raise("TimeExhausted")
       ELSE IF ApprovalReceiptFailed(outcome) THEN Raise("SonicConnectionError")
       ELSE ApprovalReturn
    /\ UNCHANGED <<call, prev, calls>>

(***************************************************************************)
(* swap, continued: build, estimate gas, sign and send, wait               *)
(***************************************************************************)
SwapBuildTx(rpc, est) ==
    /\ pc = "swap_build"
    /\ LET base_tx == [kind |-> "swap",
                       token |-> IF IsNativeToken(call.token_in) THEN NativeAddr
                                 ELSE call.token_in.addr,
                       spender |-> loc.router_address, amount |-> loc.quoted,
                       value |-> SwapValue(call.token_in, call.amount),
                       nonce |-> nonce, gas |-> GasLimit(est)]
       IN  IF rpc # "ok" THEN Raise("RpcError") /\ io' = io
           ELSE /\ io' = [io EXCEPT !.estimates = Append(@, est)]
                /\ Continue("swap_send", [loc EXCEPT !.tx = base_tx])
    /\ UNCHANGED <<chain, call, prev, calls>>

SwapSend(rpc) ==
    /\ pc = "swap_send"
    /\ IF rpc # "ok"
       THEN Raise("RpcError") /\ UNCHANGED <<io, mempool>>
       ELSE /\ io' = [io EXCEPT !.swapTxs = Append(@, loc.tx)]
            /\ mempool' = <<loc.tx>>
            /\ Continue("swap_wait", loc)
    /\ UNCHANGED <<allowance, balance, nonce, call, prev, calls>>

SwapWait(outcome) ==
    /\ pc = "swap_wait"
    /\ outcome \in Observable(loc.tx)
    /\ AfterWait(loc.tx, outcome)
    /\ io' = [io EXCEPT !.receipts = Append(@, [kind |-> "swap", outcome |-> outcome])]
    /\ IF outcome = "timeout" THEN Raise("TimeExhausted")
       ELSE IF SwapReceiptFailed(outcome) THEN Raise("SonicConnectionError")
       ELSE Return("explorer_link")
    /\ UNCHANGED <<call, prev, calls>>

(***************************************************************************)
(* The chain mines a transaction whose wait had ended without a receipt.   *)
(***************************************************************************)
LateMine(status) ==
    /\ pc = "idle"
    /\ mempool # << >>
    /\ status = "status1" => CanSucceed(mempool[1])
    /\ Mined(mempool[1], status)
    /\ result' = [result EXCEPT !.minedAfter = TRUE]
    /\ UNCHANGED <<pc, call, loc, io, prev, calls>>

\* the amounts a direct caller of _handle_token_approval asks for
DirectApprovalAmounts == {ApprovalAmountRaw(OTHER_TOKEN, a) : a \in AmountInputs}

Next ==
    \/ \E t \in TokenInputs, a \in AmountInputs, sl \in SlippageInputs, c \in BOOLEAN :
          SwapCall(t, a, sl, c)
    \/ \E rpc \in RpcOutcomes : SwapCheckBalance(rpc)
    \/ \E resp \in RouteResponses : GetSwapRoute(resp)
    \/ \E resp \in BuildResponses : GetEncodedSwapData(resp)
    \/ SwapPrepareApproval
    \/ \E a \in DirectApprovalAmounts, c \in BOOLEAN :
          ApprovalCall(OTHER_TOKEN, ROUTER, a, c)
    \/ \E rpc \in RpcOutcomes : ApprovalCheckAllowance(rpc)
    \/ \E rpc \in RpcOutcomes : ApprovalSend(rpc)
    \/ \E o \in ReceiptOutcomes : ApprovalWait(o)
    \/ \E rpc \in RpcOutcomes, est \in GasEstimates : SwapBuildTx(rpc, est)
    \/ \E rpc \in RpcOutcomes : SwapSend(rpc)
    \/ \E o \in ReceiptOutcomes : SwapWait(o)
    \/ \E s \in {"status1", "status0"} : LateMine(s)

Spec == Init /\ [][Next]_vars

\* The statements of swap whose step is enabled exactly when the call is at
\* them: their guard is the position alone, and the step leaves the position.
StatementPcs ==
    {"swap_balance", "swap_route", "swap_encode", "swap_approval", "swap_build"}

\* The interpreter goes on to the next statement, and every request and every
\* wait returns or raises.  For the statements of StatementPcs weak fairness
\* is stated by their enabling condition, pc = p: the call is not at p for ever.
FairSpec ==
    /\ Spec
    /\ \A p \in StatementPcs : []<>(pc # p)
    /\ WF_vars(\E rpc \in RpcOutcomes : ApprovalCheckAllowance(rpc))
    /\ WF_vars(\E rpc \in RpcOutcomes : ApprovalSend(rpc))
    /\ WF_vars(\E o \in ReceiptOutcomes : ApprovalWait(o))
    /\ WF_vars(\E rpc \in RpcOutcomes : SwapSend(rpc))
    /\ WF_vars(\E o \in ReceiptOutcomes : SwapWait(o))

(***************************************************************************)
(* The action dispatch layer (evm_actions.py) and EvmTradeHelper.trade     *)
(* (trade.py), on the same variables: call is the running action, loc the  *)
(* locals of trade, io what was asked and sent, result what the action     *)
(* gave back to the agent.                                                 *)
(***************************************************************************)
\* Python values, by type and repr
PyNone == [t |-> "NoneType", v |-> "None"]

PyFalse == [t |-> "bool", v |-> "False"]

PyTrue == [t |-> "bool", v |-> "True"]

\* the registered actions: name, the connection's action, the value of the
\* except branch
EvmActions ==
    { [name |-> "evm-transfer", action_name |-> "transfer", sentinel |-> PyFalse],
      [name |-> "evm-swap", action_name |-> "trade", sentinel |-> PyFalse],
      [name |-> "evm-balance", action_name |-> "get-balance", sentinel |-> PyNone],
      [name |-> "evm-stake", action_name |-> "stake", sentinel |-> PyFalse],
      [name |-> "evm-lend", action_name |-> "lend-assets", sentinel |-> PyFalse],
      [name |-> "evm-request-funds", action_name |-> "request-faucet",
       sentinel |-> PyFalse],
      [name |-> "evm-deploy-token", action_name |-> "deploy-token",
       sentinel |-> PyFalse],
      [name |-> "evm-get-price", action_name |-> "fetch-price", sentinel |-> PyNone],
      [name |-> "evm-get-tps", action_name |-> "get-tps", sentinel |-> PyNone],
      [name |-> "evm-get-token-by-ticker", action_name |-> "get-token-by-ticker",
       sentinel |-> PyNone],
      [name |-> "evm-get-token-by-address", action_name |-> "get-token-by-address",
       sentinel |-> PyNone],
      [name |-> "evm-launch-pump-token", action_name |-> "launch-pump-token",
       sentinel |-> PyFalse],
      [name |-> "evm-list-contract-functions",
       action_name |-> "list-contract-functions", sentinel |-> PyNone],
      [name |-> "evm-call-contract-function",
       action_name |-> "call-contract-function", sentinel |-> PyNone],
      [name |-> "evm-wrap-eth", action_name |-> "wrap-eth", sentinel |-> PyFalse] }

\* exceptions, with whether the class derives from Exception
ExcError == [name |-> "Exception", isException |-> TRUE]

ExcAssertion == [name |-> "AssertionError", isException |-> TRUE]

ExcName == [name |-> "NameError", isException |-> TRUE]

ExcSystemExit == [name |-> "SystemExit", isException |-> FALSE]

\* what the connection's operation hands back through perform_action: a
\* balance, a price, a rate, a transaction link, token data, a listing, ...
ResultValues ==
    { [t |-> "float", v |-> "0.0"], [t |-> "float", v |-> "1.5"],
      [t |-> "str", v |-> "0x5c504ed4"], [t |-> "dict", v |-> "{'symbol': 'USDC'}"],
      [t |-> "list", v |-> "[]"], PyTrue, PyNone }

Returned(v) == [status |-> "returned", value |-> v]

Raised_(e) == [status |-> "raised", value |-> e]

\* the outcomes of perform_action for an operation of the connection
PerformOutcomes ==
    {Returned(v) : v \in ResultValues} \cup {Raised_(ExcError)}

\* except Exception as e
Catches(e) == e.isException

\* an action's try / except around perform_action
ActionResult(sentinel, outcome) ==
    IF outcome.status = "returned" THEN Returned(outcome.value)
    ELSE IF Catches(outcome.value) THEN Returned(sentinel)
    ELSE Raised_(outcome.value)

\* evm_swap: kwargs.get('slippage_bps', 100); << >> is an absent key
DEFAULT_SLIPPAGE_BPS == 100

SlippageBpsKwarg(kw) == IF kw = << >> THEN DEFAULT_SLIPPAGE_BPS ELSE kw[1]

SlippageBpsInputs == {<< >>, <<50>>}

\* evm_swap: kwargs.get('input_mint', None); << >> is None
InputMintInputs == {<< >>, <<OTHER_TOKEN.addr>>, <<S_TOKEN.addr>>}

UNISWAP_ROUTER == "0xE592427A0AEce92De3Edee1F18E0157C05861564"

\* the operator's answers to input("Ok [y/n]?"), as character sequences
ConfirmAnswers ==
    { << >>, <<"y">>, <<"Y">>, <<"Y", "e", "s">>, <<"n">>, <<"N", "o">>,
      <<"n", "y">> }

\* str.lower(), on the letters of the answers
LowerChar(c) ==
    CASE c = "Y" -> "y"
      [] c = "N" -> "n"
      [] c = "E" -> "e"
      [] OTHER -> c

StrLower(str) == [i \in 1..Len(str) |-> LowerChar(str[i])]

\* str.startswith
StartsWith(str, prefix) ==
    /\ Len(prefix) <= Len(str)
    /\ SubSeq(str, 1, Len(prefix)) = prefix

\* quote.convert_to_raw(input_amount): int(input_amount * 10 ** decimals)
TradeRawAmount(token, amount) == FloatToRaw(amount, Decimals(token))

\* needs_approval / 10**decimals: the allowance in token units, a float
AllowanceUnits(raw, token) == RoundToFloat(raw, Decimals(token))

\* float < int, compared exactly
FloatLessInt(f, n) ==
    IF f.m = << >> THEN n # << >>
    ELSE IF f.e >= 0 THEN BigLess(BigTimesPow2(f.m, f.e), n)
    ELSE BigLess(f.m, BigTimesPow2(n, -f.e))

\* trade: if needs_approval >= raw_amount
AlreadyApproved(needs_approval, raw_amount) == ~FloatLessInt(needs_approval, raw_amount)

\* trade: assert quote.fetch_balance_of(my_address) > 0
HasQuoteBalance(bal) == bal # << >>

\* mutant: every answer but a "no" goes on
Confirmed_UnlessNo(answer) == ~StartsWith(StrLower(answer), <<"n">>)

\* trade: confirm.lower().startswith("y")
Confirmed(answer) == StartsWith(StrLower(answer), <<"y">>)

\* what the account holds before the first action, and the router's allowance
EvmInitialBalances ==
    { [t \in Erc20Addrs \cup {NativeAddr} |-> BigTimesPow10(<<3>>, DecimalsOf(t))],
      [t \in Erc20Addrs \cup {NativeAddr} |-> << >>] }

EvmInitialAllowances ==
    {<< >>, BigOfNat(1100000), BigTimesPow10(<<11>>, EtherDecimals - 1)}

EvmNoCall == [fn |-> "none", action_name |-> "", sentinel |-> PyNone,
              input_mint |-> << >>, input_amount |-> <<0, 0>>, slippage_bps |-> 0]

EvmNoLoc == [raw_amount |-> << >>, needs_approval |-> FloatZero,
             tx_1 |-> NoTx, tx_2 |-> NoTx]

\* performed: how perform_action ended; prompts: the answers given;
\* builtTxs, sentTxs: transactions built and broadcast; receipts: those awaited
EvmNoIo == [performed |-> << >>, prompts |-> << >>, allowanceReads |-> << >>,
            builtTxs |-> << >>, sentTxs |-> << >>, receipts |-> << >>]

EvmInit ==
    /\ \E a \in EvmInitialAllowances : allowance = [t \in Erc20Addrs |-> a]
    /\ balance \in EvmInitialBalances
    /\ nonce = 0
    /\ mempool = << >>
    /\ pc = "idle"
    /\ call = EvmNoCall
    /\ loc = EvmNoLoc
    /\ io = EvmNoIo
    /\ result = NoResult
    /\ prev = NoPrev
    /\ calls = 0

\* the agent runs an action: the try block up to perform_action
BeginAction(a, mint, amount, bps) ==
    /\ pc = "idle"
    /\ calls < MaxCalls
    /\ calls' = calls + 1
    /\ call' = [fn |-> a.name, action_name |-> a.action_name,
                sentinel |-> a.sentinel, input_mint |-> mint,
                input_amount |-> amount, slippage_bps |-> bps]
    /\ loc' = EvmNoLoc
    /\ io' = EvmNoIo
    /\ result' = NoResult
    /\ pc' = IF a.action_name = "trade" THEN "trade_setup" ELSE "perform"
    /\ UNCHANGED <<chain, prev>>

\* every action but evm-swap: its parameters do not matter here
DispatchCall(a) ==
    /\ a.action_name # "trade"
    /\ BeginAction(a, << >>, <<0, 0>>, 0)

EvmSwapCall(mint, amount, bps) ==
    \E a \in EvmActions :
        /\ a.name = "evm-swap"
        /\ BeginAction(a, mint, amount, SlippageBpsKwarg(bps))

\* perform_action runs the connection's operation, which returns or raises
PerformAction(outcome) ==
    /\ pc = "perform"
    /\ io' = [io EXCEPT !.performed = <<outcome>>]
    /\ pc' = "action_return"
    /\ UNCHANGED <<chain, call, loc, result, prev, calls>>

\* the action's return, or the exception its except clause does not catch
ActionReturn ==
    /\ pc = "action_return"
    /\ LET r == ActionResult(call.sentinel, io.performed[1])
       IN  result' = [status |-> r.status, value |-> r.value, minedAfter |-> FALSE]
    /\ pc' = "idle"
    /\ UNCHANGED <<chain, call, loc, io, prev, calls>>

(***************************************************************************)
(* EvmTradeHelper.trade, run by perform_action for the action "trade".     *)
(* Line 186 formats tx_hash_1, a name that is never bound (its assignment  *)
(* at line 177 is a comment), so every run that broadcasts ends there with *)
(* a NameError; the statements after it are never reached.                 *)
(***************************************************************************)
TradeToken == call.input_mint[1]

\* trade ends with exception e; log is what it has asked and sent
TradeRaise(e, log) ==
    /\ io' = [log EXCEPT !.performed = <<Raised_(e)>>]
    /\ pc' = "action_return"
    /\ loc' = loc

TradeContinue(next, locals, log) ==
    /\ io' = log
    /\ pc' = next
    /\ loc' = locals

\* lines 34-73: account, router deployment, token details, balances
TradeSetup(rpc) ==
    /\ pc = "trade_setup"
    /\ IF rpc # "ok" \/ call.input_mint = << >>
       THEN TradeRaise(ExcError, io)
       ELSE TradeContinue("trade_assert", loc, io)
    /\ UNCHANGED <<chain, call, result, prev, calls>>

\* lines 75-77: the balance assertion
TradeAssertBalance(rpc) ==
    /\ pc = "trade_assert"
    /\ IF rpc # "ok" THEN TradeRaise(ExcError, io)
       ELSE IF ~HasQuoteBalance(balance[TradeToken]) THEN TradeRaise(ExcAssertion, io)
       ELSE TradeContinue("trade_confirm", loc, io)
    /\ UNCHANGED <<chain, call, result, prev, calls>>

\* lines 78-94: decimals, Decimal(input_amount), the confirmation prompt
TradeConfirm(rpc, answer) ==
    /\ pc = "trade_confirm"
    /\ LET asked == [io EXCEPT !.prompts = Append(@, answer)]
       IN  IF rpc # "ok" THEN TradeRaise(ExcError, io)
           ELSE IF ~Confirmed(answer) THEN TradeRaise(ExcSystemExit, asked)
           ELSE TradeContinue("trade_allowance", loc, asked)
    /\ UNCHANGED <<chain, call, result, prev, calls>>

\* lines 97-131: raw amount, allowance, and tx_1 built when it is too low
TradeCheckAllowance(rpc) ==
    /\ pc = "trade_allowance"
    /\ LET raw_amount == TradeRawAmount(TradeToken, call.input_amount)
           needs_approval == AllowanceUnits(allowance[TradeToken], TradeToken)
           tx_1 == [kind |-> "approve", token |-> TradeToken,
                    spender |-> UNISWAP_ROUTER, amount |-> raw_amount,
                    value |-> << >>, nonce |-> nonce, gas |-> "GAS"]
           read == [io EXCEPT !.allowanceReads = Append(@, allowance[TradeToken])]
           locals == [loc EXCEPT !.raw_amount = raw_amount,
                                 !.needs_approval = needs_approval]
       IN  IF rpc # "ok" THEN TradeRaise(ExcError, io)
           ELSE IF AlreadyApproved(needs_approval, raw_amount)
           THEN TradeContinue("trade_build", locals, read)
           ELSE TradeContinue("trade_build", [locals EXCEPT !.tx_1 = tx_1],
                              [read EXCEPT !.builtTxs = Append(@, tx_1)])
    /\ UNCHANGED <<chain, call, result, prev, calls>>

\* lines 152-174: the swap call with slippage protection, the nonce, tx_2
TradeBuildSwap(rpc) ==
    /\ pc = "trade_build"
    /\ LET tx_2 == [kind |-> "swap", token |-> TradeToken,
                    spender |-> UNISWAP_ROUTER, amount |-> loc.raw_amount,
                    value |-> << >>, nonce |-> nonce, gas |-> "GAS",
                    max_slippage |-> call.slippage_bps]
       IN  IF rpc # "ok" THEN TradeRaise(ExcError, io)
           ELSE TradeContinue("trade_send", [loc EXCEPT !.tx_2 = tx_2],
                              [io EXCEPT !.builtTxs = Append(@, tx_2)])
    /\ UNCHANGED <<chain, call, result, prev, calls>>

\* lines 176-178: tx_2 is broadcast; the broadcast of tx_1 is a comment
TradeSend(rpc) ==
    /\ pc = "trade_send"
    /\ IF rpc # "ok"
       THEN TradeRaise(ExcError, io) /\ mempool' = mempool
       ELSE /\ TradeContinue("trade_log", loc,
                             [io EXCEPT !.sentTxs = Append(@, loc.tx_2)])
            /\ mempool' = <<loc.tx_2>>
    /\ UNCHANGED <<allowance, balance, nonce, call, result, prev, calls>>

\* lines 184-187: the log line that names tx_hash_1
TradeLog ==
    /\ pc = "trade_log"
    /\ TradeRaise(ExcName, io)
    /\ UNCHANGED <<chain, call, result, prev, calls>>

EvmNext ==
    \/ \E a \in EvmActions : DispatchCall(a)
    \/ \E mint \in InputMintInputs, amount \in AmountInputs, bps \in SlippageBpsInputs :
          EvmSwapCall(mint, amount, bps)
    \/ \E outcome \in PerformOutcomes : PerformAction(outcome)
    \/ ActionReturn
    \/ \E rpc \in RpcOutcomes : TradeSetup(rpc)
    \/ \E rpc \in RpcOutcomes : TradeAssertBalance(rpc)
    \/ \E rpc \in RpcOutcomes, answer \in ConfirmAnswers : TradeConfirm(rpc, answer)
    \/ \E rpc \in RpcOutcomes : TradeCheckAllowance(rpc)
    \/ \E rpc \in RpcOutcomes : TradeBuildSwap(rpc)
    \/ \E rpc \in RpcOutcomes : TradeSend(rpc)
    \/ TradeLog
    \/ \E st \in {"status1", "status0"} : LateMine(st)

EvmSpec == EvmInit /\ [][EvmNext]_vars

(***************************************************************************)
(* The claims.                                                             *)
(***************************************************************************)
InSwap == call.fn = "swap"

NonNativeInput == call.token_in.addr # NativeAddr

\* the swap transaction has just been submitted and is not mined yet
SwapJustSubmitted == InSwap /\ pc = "swap_wait"

\* C1: whenever swap has just submitted its main transaction for an input
\* token that is not the native sentinel, the router's allowance for the
\* input token is at least the raw amount that was quoted to the aggregator.
C1_AllowanceCoversQuoteAtSubmission ==
    (SwapJustSubmitted /\ NonNativeInput)
        => BigLeq(io.routes[1].amountIn, allowance[call.token_in.addr])

\* the account's raw balance of the call's input token
InputBalance ==
    IF call.token_in.addr = NativeAddr THEN balance[NativeAddr]
    ELSE balance[call.token_in.addr]

\* f > b / 10^d, exactly, for a float f and a raw balance b of a token with
\* d decimals
FloatExceedsRaw(f, b, d) ==
    IF f.e < 0 THEN BigLess(BigTimesPow2(b, -f.e), BigTimesPow10(f.m, d))
    ELSE BigLess(b, BigTimesPow2(BigTimesPow10(f.m, d), f.e))

\* the call's amount is greater than the account's balance of the input token
AmountExceedsBalance ==
    FloatExceedsRaw(AmountFloat(call.amount), InputBalance,
                    DecimalsOf(call.token_in.addr))

\* no transaction of this call has executed, and none was mined after it
BalanceAsAtCall ==
    /\ ~result.minedAfter
    /\ \A i \in 1..Len(io.receipts) : io.receipts[i].outcome # "status1"

NothingSent ==
    /\ io.routes = << >>
    /\ io.builds = << >>
    /\ io.approveTxs = << >>
    /\ io.swapTxs = << >>

\* C2: a swap whose amount is greater than the account's balance of the
\* input token fails with an error before any request to the aggregator
\* (routes or route/build) and without submitting any transaction.
C2_InsufficientBalanceFailsFirst ==
    (InSwap /\ BalanceAsAtCall /\ AmountExceedsBalance)
        => /\ NothingSent
           /\ pc \in {"swap_balance", "idle"}
           /\ pc = "idle" => result.status = "raised"

NoTransactionSent == io.approveTxs = << >> /\ io.swapTxs = << >>

Raised == pc = "idle" /\ result.status = "raised"

\* the route response of this swap was parsed and carries a non-zero code
RouteCodeNonZero ==
    /\ InSwap
    /\ io.routes # << >>
    /\ io.routes[1].resp.http = "ok"
    /\ io.routes[1].resp.code # 0

\* C3: a route response with a non-zero code makes swap fail with an error,
\* with no route-build request, no approval and no swap transaction.
C3_RouteErrorAborts ==
    RouteCodeNonZero => Raised /\ io.builds = << >> /\ NoTransactionSent

C3_Witness == RouteCodeNonZero /\ Raised

InApproval == pc \in {"approval_allowance", "approval_send", "approval_wait"}

NativeInput == InSwap /\ call.token_in.addr = NativeAddr

\* C4: a swap whose input token is the native sentinel, in any letter case,
\* never enters the approval step: no allowance read, no approval transaction.
C4_NativeSkipsApproval ==
    NativeInput => ~InApproval /\ io.allowanceReads = << >> /\ io.approveTxs = << >>

C4_Witness ==
    /\ NativeInput
    /\ call.token_in = Lower(NATIVE_TOKEN)
    /\ pc = "swap_wait"
    /\ io.allowanceReads = << >>

\* the gas estimation of this swap was attempted and failed
EstimationFailed == InSwap /\ io.estimates # << >> /\ ~io.estimates[1].ok

\* the gas limit of the built and of the submitted swap transaction
GasIs(g) ==
    /\ pc \in {"swap_send", "swap_wait"} => loc.tx.gas = g
    /\ \A i \in 1..Len(io.swapTxs) : io.swapTxs[i].gas = g

\* C5: a failed gas estimation does not abort swap: the step that estimates
\* ends at sign-and-send with the gas limit 500000, the transaction is
\* submitted with it, and a successful estimation's value is used as it is.
C5_GasFallback ==
    /\ [](EstimationFailed => GasIs(DEFAULT_GAS_LIMIT))
    /\ []((InSwap /\ io.estimates # << >> /\ io.estimates[1].ok)
            => GasIs(io.estimates[1].gas))
    /\ [][(pc = "swap_build" /\ io'.estimates # io.estimates
             /\ ~io'.estimates[1].ok)
            => pc' = "swap_send" /\ loc'.tx.gas = DEFAULT_GAS_LIMIT]_vars

C5_Witness ==
    /\ EstimationFailed
    /\ pc = "swap_wait"
    /\ io.swapTxs # << >>
    /\ io.swapTxs[1].gas = DEFAULT_GAS_LIMIT

\* the swap transaction's confirmed receipt has status success
SwapReceiptSuccess ==
    /\ io.swapTxs # << >>
    /\ io.receipts # << >>
    /\ io.receipts[Len(io.receipts)] = [kind |-> "swap", outcome |-> "status1"]

SwapEnded == InSwap /\ pc = "idle"

\* C6: swap returns its explorer-link value only when the swap transaction's
\* receipt has status success; every other way it ends is a raised error.
C6_ReturnsOnlyOnSuccess ==
    SwapEnded =>
        /\ result.status \in {"returned", "raised"}
        /\ result.status = "returned" <=> SwapReceiptSuccess
        /\ result.status = "returned" => result.value = "explorer_link"

C6_Witness == SwapEnded /\ result.status = "returned" /\ SwapReceiptSuccess

\* _handle_token_approval has returned normally: to its direct caller, or
\* back into swap, which is then at its next step
ApprovalReturned ==
    \/ call.fn = "approval" /\ pc = "idle" /\ result.status = "returned"
    \/ InSwap /\ pc = "swap_build" /\ io.allowanceReads # << >>

\* C7: when the allowance read is at least the required amount, the step of
\* _handle_token_approval that reads it submits nothing, leaves allowance,
\* nonce and pending transactions as they were, and returns without error.
C7_SufficientAllowanceNoOp ==
    [][(/\ pc = "approval_allowance"
        /\ io'.allowanceReads # io.allowanceReads
        /\ BigLeq(ApprovalRequired, allowance[ApprovalToken]))
       => /\ UNCHANGED <<allowance, balance, nonce, mempool>>
          /\ io'.approveTxs = << >>
          /\ io'.receipts = << >>
          /\ IF InSwap
             THEN pc' = "swap_build"
             ELSE pc' = "idle" /\ result'.status = "returned"]_vars

C7_Witness ==
    /\ ApprovalReturned
    /\ BigLeq(ApprovalRequired, io.allowanceReads[1])
    /\ io.approveTxs = << >>
    /\ allowance[ApprovalToken] = io.allowanceReads[1]

\* the allowance read by the approval that has returned was below the amount
ApprovedFromBelow ==
    /\ ApprovalReturned
    /\ ~result.minedAfter
    /\ io.allowanceReads # << >>
    /\ BigLess(io.allowanceReads[1], ApprovalRequired)

\* C8: when the allowance read is below the required amount,
\* _handle_token_approval submits exactly one approval, for exactly the
\* required amount, returns only after its receipt with status success, and
\* the allowance then equals the required amount.
C8_ApprovesExactAmount ==
    ApprovedFromBelow =>
        /\ Len(io.approveTxs) = 1
        /\ io.approveTxs[1].kind = "approve"
        /\ io.approveTxs[1].token = ApprovalToken
        /\ io.approveTxs[1].amount = ApprovalRequired
        /\ io.receipts = <<[kind |-> "approve", outcome |-> "status1"]>>
        /\ mempool = << >>
        /\ allowance[ApprovalToken] = ApprovalRequired

C8_Witness ==
    /\ ApprovedFromBelow
    /\ Len(io.approveTxs) = 1
    /\ allowance[ApprovalToken] = ApprovalRequired

\* this call of _handle_token_approval repeats the call before it, which
\* returned normally, and the allowance was not changed in between
RepeatedApproval ==
    /\ call.fn = "approval"
    /\ prev.fn = "approval"
    /\ prev.status = "returned"
    /\ ~prev.minedAfter
    /\ prev.token = ApprovalToken
    /\ prev.spender = call.spender
    /\ prev.required = call.required

\* C9: of two successive calls of _handle_token_approval with the same
\* token, spender and amount, the first returning normally, the second
\* submits no approval, so the two submit at most one.
C9_RepeatedApprovalIdempotent ==
    RepeatedApproval =>
        /\ io.approveTxs = << >>
        /\ pc \notin {"approval_send", "approval_wait"}
        /\ prev.approveTxs + Len(io.approveTxs) <= 1

C9_Witness ==
    /\ RepeatedApproval
    /\ prev.approveTxs = 1
    /\ pc = "idle"
    /\ result.status = "returned"
    /\ io.allowanceReads = <<call.required>>

\* the wait for this swap's approval ended without a receipt of success
ApprovalNotConfirmed ==
    /\ InSwap
    /\ \E i \in 1..Len(io.receipts) :
          /\ io.receipts[i].kind = "approve"
          /\ io.receipts[i].outcome \in {"status0", "none", "timeout"}

\* C10: an approval whose receipt is not a success, or for which no receipt
\* is obtained, makes the approval step raise, and the enclosing swap ends
\* with that error without submitting the swap transaction.
C10_FailedApprovalAbortsSwap ==
    ApprovalNotConfirmed => Raised /\ io.swapTxs = << >>

C10_Witness ==
    /\ ApprovalNotConfirmed
    /\ io.receipts = <<[kind |-> "approve", outcome |-> "status0"]>>
    /\ Raised

\* the route-build response of this swap was parsed and is an error answer
BuildAnswerBad ==
    /\ InSwap
    /\ io.builds # << >>
    /\ io.builds[1].resp.http = "ok"
    /\ io.builds[1].resp.code # 0 \/ ~io.builds[1].resp.dataIsStr

\* C11: a route-build response with a non-zero code, or without string call
\* data, makes swap end with a raised error before any allowance read,
\* approval transaction or swap transaction.
C11_EncodeErrorAborts ==
    BuildAnswerBad =>
        /\ Raised
        /\ result.value = "EncodeError"
        /\ io.allowanceReads = << >>
        /\ NoTransactionSent

C11_Witness ==
    /\ BuildAnswerBad
    /\ ~io.builds[1].resp.dataIsStr
    /\ call.token_in.addr # NativeAddr
    /\ Raised

\* this swap repeats, for the same token and amount, the swap before it,
\* which failed after its approval was confirmed; nothing was mined between
SwapRepeatedAfterApproval ==
    /\ InSwap
    /\ prev.fn = "swap"
    /\ prev.status = "raised"
    /\ prev.approved
    /\ ~prev.minedAfter
    /\ prev.token = call.token_in.addr
    /\ prev.amount = call.amount

\* no transaction of this call has been mined
NothingMinedYet ==
    /\ ~result.minedAfter
    /\ \A i \in 1..Len(io.receipts) : io.receipts[i].outcome \notin {"status1", "status0"}

\* C12: the allowance set by a confirmed approval outlives the failure of
\* its swap: the next swap of the same token and amount finds the allowance
\* at the approved amount, reads it, and submits no approval transaction.
C12_ApprovalSurvivesFailedSwap ==
    SwapRepeatedAfterApproval =>
        /\ io.approveTxs = << >>
        /\ pc \notin {"approval_send", "approval_wait"}
        /\ NothingMinedYet =>
              allowance[call.token_in.addr] =
                  ApprovalAmountRaw(call.token_in, call.amount)
        /\ \A i \in 1..Len(io.allowanceReads) :
              io.allowanceReads[i] = ApprovalAmountRaw(call.token_in, call.amount)

C12_Witness ==
    /\ SwapRepeatedAfterApproval
    /\ pc = "swap_build"
    /\ Len(io.allowanceReads) = 1
    /\ io.approveTxs = << >>

\* this swap was called without a slippage argument and has sent its
\* route-build request
BuildSentWithDefaultSlippage ==
    /\ InSwap
    /\ call.slippage = << >>
    /\ io.builds # << >>

\* C15 as stated: without a slippage argument, the slippageTolerance of the
\* route-build request is 100.
C15_DefaultSlippageIs100 ==
    BuildSentWithDefaultSlippage => io.builds[1].slippageTolerance = BigOfNat(100)

\* C15, amended: without a slippage argument, the slippageTolerance of the
\* route-build request is 50, the default 0.5 times 100.
C15_DefaultSlippageIs50 ==
    BuildSentWithDefaultSlippage => io.builds[1].slippageTolerance = BigOfNat(50)

C15_Witness ==
    /\ BuildSentWithDefaultSlippage
    /\ io.builds[1].slippageTolerance = BigOfNat(50)
    /\ pc = "swap_approval"

\* how many receipts of transactions of the given kind this call has awaited
ReceiptsOf(kind) ==
    Cardinality({i \in 1..Len(io.receipts) : io.receipts[i].kind = kind})

\* C16: one swap invocation submits at most one approval and at most one
\* swap transaction and awaits each at most once, whatever the outcome; each
\* aggregator request is made at most once too.
C16_NoResubmission ==
    InSwap =>
        /\ Len(io.approveTxs) <= 1
        /\ Len(io.swapTxs) <= 1
        /\ ReceiptsOf("approve") <= Len(io.approveTxs)
        /\ ReceiptsOf("swap") <= Len(io.swapTxs)
        /\ Len(io.routes) <= 1
        /\ Len(io.builds) <= 1
        /\ Len(io.allowanceReads) <= 1

C16_Witness ==
    /\ InSwap
    /\ Raised
    /\ Len(io.approveTxs) = 1
    /\ Len(io.swapTxs) = 1
    /\ io.receipts = <<[kind |-> "approve", outcome |-> "status1"],
                       [kind |-> "swap", outcome |-> "timeout"]>>

SwapRunning == InSwap /\ pc # "idle"

SwapOver == InSwap /\ pc = "idle" /\ result.status \in {"returned", "raised"}

\* the last wait of this swap ended by its timeout
TimedOut ==
    /\ InSwap
    /\ io.receipts # << >>
    /\ io.receipts[Len(io.receipts)].outcome = "timeout"

ActionEnded == call.fn # "none" /\ pc = "idle" /\ io.performed # << >>

Performed == io.performed[1]

\* C13: no action lets an exception escape: what perform_action returns the
\* action returns unchanged, and when perform_action raises, the action
\* returns its sentinel.
C13_NoExceptionEscapes ==
    ActionEnded =>
        /\ result.status = "returned"
        /\ Performed.status = "returned" => result.value = Performed.value
        /\ Performed.status = "raised" => result.value = call.sentinel

\* Python's truth value of the values of this model
Falsy(v) ==
    v \in {PyNone, PyFalse, [t |-> "float", v |-> "0.0"], [t |-> "list", v |-> "[]"]}

\* C14: an action returns a falsy value exactly when the operation raised,
\* and a result value exactly when it returned.
C14_FalsyIffFailed ==
    (ActionEnded /\ result.status = "returned") =>
        (Falsy(result.value) <=> Performed.status = "raised")

TradeRan == call.fn = "evm-swap"

\* the swap transaction is among those trade has broadcast
SwapBroadcast ==
    /\ TradeRan
    /\ \E j \in 1..Len(io.sentTxs) : io.sentTxs[j].kind = "swap"

\* the allowance trade read was below the raw input amount
AllowanceTooLow ==
    /\ io.allowanceReads # << >>
    /\ BigLess(io.allowanceReads[1], loc.raw_amount)

\* C18: when the allowance is below the raw amount, an approve transaction
\* is broadcast before the swap transaction.
C18_ApproveSentBeforeSwap ==
    (SwapBroadcast /\ AllowanceTooLow) =>
        \E i, j \in 1..Len(io.sentTxs) :
            /\ i < j
            /\ io.sentTxs[i].kind = "approve"
            /\ io.sentTxs[j].kind = "swap"

TradeOver == TradeRan /\ pc \in {"action_return", "idle"}

\* C19: once the swap transaction is broadcast, trade waits for its receipt:
\* it does not end before it has awaited every transaction it sent, and it
\* ends with an error exactly when a receipt has status 0.
C19_WaitsAfterBroadcast ==
    (TradeOver /\ SwapBroadcast) =>
        /\ Len(io.receipts) = Len(io.sentTxs)
        /\ Performed.status = "raised" <=>
              \E i \in 1..Len(io.receipts) : io.receipts[i].outcome = "status0"

\* the operator's answer starts with y or Y
AnsweredYes ==
    /\ io.prompts # << >>
    /\ io.prompts[1] # << >>
    /\ io.prompts[1][1] \in {"y", "Y"}

\* this run of trade has built and broadcast nothing
NoTradeTx == io.builtTxs = << >> /\ io.sentTxs = << >>

TradeAborted == TradeOver /\ Performed.status = "raised" /\ NoTradeTx

\* C20: trade builds and broadcasts a transaction only after an answer that
\* starts with y or Y and with a balance of the input token above zero; any
\* other answer, and a zero balance, end it before any transaction is built.
C20_NoTxUnlessConfirmed ==
    TradeRan =>
        /\ (io.builtTxs # << >> \/ io.sentTxs # << >>) =>
              /\ AnsweredYes
              /\ balance[TradeToken] # << >>
        /\ (io.prompts # << >> /\ ~AnsweredYes) => TradeAborted
        /\ (pc \notin {"trade_setup", "trade_assert"} /\ call.input_mint # << >>
              /\ balance[TradeToken] = << >>)
              => TradeAborted /\ io.prompts = << >>

C20_Witness ==
    /\ TradeRan
    /\ io.prompts = << <<"Y", "e", "s">> >>
    /\ io.sentTxs # << >>
    /\ mempool # << >>

\* the swap transaction of the running swap exists: built, or already sent
SwapTxBuilt == InSwap /\ (pc \in {"swap_send", "swap_wait"} \/ io.swapTxs # << >>)

\* this swap call has sent an approval transaction
ApprovalSentInCall == InSwap /\ io.approveTxs # << >>

\* C21: in one swap call the approval and the swap transaction never carry
\* the same nonce: the swap's nonce is read only once the approval's receipt
\* with status 1 is there, and it is greater than the approval's nonce.
C21_SwapNonceAfterApproval ==
    (ApprovalSentInCall /\ SwapTxBuilt) =>
        /\ io.receipts # << >>
        /\ io.receipts[1] = [kind |-> "approve", outcome |-> "status1"]
        /\ \A i \in 1..Len(io.approveTxs) :
              /\ pc \in {"swap_send", "swap_wait"} =>
                    io.approveTxs[i].nonce < loc.tx.nonce
              /\ \A j \in 1..Len(io.swapTxs) :
                    io.approveTxs[i].nonce < io.swapTxs[j].nonce

C21_Witness ==
    /\ ApprovalSentInCall
    /\ io.swapTxs # << >>
    /\ io.swapTxs[1].nonce = io.approveTxs[1].nonce + 1
    /\ calls = 2
====
